---- MODULE Spec2Model ----
(***************************************************************************)
(* Model of the criticality_score signal collection worker:                *)
(*   - internal/scorer/algorithm: Distribution, LookupDistribution         *)
(*   - internal/scorer/algorithm/wam: WeightedArithmeticMean.Score         *)
(*   - cmd/collect_signals/vcs: CommitID (lazily cached global)            *)
(*   - cmd/collect_signals: collectWorker.Process                          *)
(*   - internal/signalio: WriterType text (un)marshalling                  *)
(*                                                                         *)
(* float64 values are modelled as exact rationals extended with NaN, +Inf  *)
(* and -Inf (rounding error and the sign of zero are not modelled).        *)
(***************************************************************************)
EXTENDS Integers, Sequences, FiniteSets, TLC

VARIABLES
    call,        \* pure functions: the call under test, [op, ...arguments]
    result,      \* pure functions: what the call returned, Nil before it ran
    buildInfo,   \* what debug.ReadBuildInfo returns in this binary
    commitID,    \* package vcs: var commitID string, as its two words
    cfg,         \* the collectWorker's fields s, scoreColumnName, csvBucketURL
    req,         \* per worker: the repository URLs of its ScorecardBatchRequest
    pc,          \* per worker: its position in Process
    cont,        \* per worker: where its CommitID call returns to
    local,       \* per worker: CommitID's loaded / fetched string
    cid,         \* per worker: the string CommitID returned
    idx,         \* per worker: index of the repository the loop is at
    extras,      \* per worker: the extra column names (Process's outer extras)
    csvCols,     \* per worker: the column list csvOut was created with
    ss,          \* per worker: the signal Set of the repository in hand
    recExtras,   \* per worker: the extra fields of the record in hand
    scoreVal,    \* per worker: the float64 w.s.Score returned last
    jsonOutput,  \* per worker: records written to jsonOut
    csvOutput,   \* per worker: records written to csvOut
    blobs,       \* per worker: blob store writes, in order
    outcome,     \* per worker: how each repository of the shard ended
    ret          \* per worker: what Process returned, Nil while running

pureVars == <<call, result>>
procVars == <<buildInfo, commitID, cfg, req, pc, cont, local, cid, idx, extras,
              csvCols, ss, recExtras, scoreVal, jsonOutput, csvOutput, blobs, outcome, ret>>
vars == <<call, result, buildInfo, commitID, cfg, req, pc, cont, local, cid, idx,
          extras, csvCols, ss, recExtras, scoreVal, jsonOutput, csvOutput, blobs, outcome, ret>>

(***************************************************************************)
(* Bounds of the model.                                                    *)
(***************************************************************************)
MaxInputs == 2
MaxWeight == 2
MaxRepos == 3
MaxPathLen == 4

(***************************************************************************)
(* float64                                                                 *)
(***************************************************************************)
Abs(x) == IF x < 0 THEN -x ELSE x

RECURSIVE GCD(_, _)
GCD(a, b) == IF b = 0 THEN a ELSE GCD(b, a % b)

Fin(n, d) ==
    LET g == GCD(Abs(n), Abs(d))
        s == IF d < 0 THEN -1 ELSE 1
    IN  [k |-> "fin", n |-> (s * n) \div g, d |-> (s * d) \div g]

FInt(i) == Fin(i, 1)
NaN == [k |-> "nan", n |-> 0, d |-> 1]
PInf == [k |-> "inf", n |-> 1, d |-> 1]
NInf == [k |-> "inf", n |-> -1, d |-> 1]

IsFinite(x) == x.k = "fin"
Sign(x) == IF x.n > 0 THEN 1 ELSE IF x.n < 0 THEN -1 ELSE 0
Signed(s) == IF s > 0 THEN PInf ELSE IF s < 0 THEN NInf ELSE NaN

\* float64 addition
FAdd(x, y) ==
    IF x.k = "nan" \/ y.k = "nan" THEN NaN
    ELSE IF x.k = "inf" /\ y.k = "inf" THEN (IF x.n = y.n THEN x ELSE NaN)
    ELSE IF x.k = "inf" THEN x
    ELSE IF y.k = "inf" THEN y
    ELSE Fin(x.n * y.d + y.n * x.d, x.d * y.d)

\* float64 multiplication
FMul(x, y) ==
    IF x.k = "nan" \/ y.k = "nan" THEN NaN
    ELSE IF x.k = "inf" \/ y.k = "inf" THEN Signed(Sign(x) * Sign(y))
    ELSE Fin(x.n * y.n, x.d * y.d)

\* float64 division; a finite value over zero is +Inf, -Inf or NaN
FDiv(x, y) ==
    IF x.k = "nan" \/ y.k = "nan" THEN NaN
    ELSE IF x.k = "inf" /\ y.k = "inf" THEN NaN
    ELSE IF x.k = "inf" THEN (IF Sign(y) < 0 THEN Signed(-Sign(x)) ELSE x)
    ELSE IF y.k = "inf" THEN FInt(0)
    ELSE IF y.n = 0 THEN Signed(Sign(x))
    ELSE Fin(x.n * y.d, x.d * y.n)

\* math.Log on the integers the model feeds it, in thousandths
LnMilli(x) ==
    CASE x = 1 -> 0
      [] x = 2 -> 693
      [] x = 3 -> 1099
      [] x = 4 -> 1386
      [] x = 5 -> 1609
      [] x = 6 -> 1792
      [] x = 7 -> 1946
      [] x = 8 -> 2079
      [] x = 9 -> 2197
      [] x = 10 -> 2303
      [] x = 11 -> 2398
      [] OTHER -> 2398 + 87 * (x - 11)

\* math.Log(x): NaN below zero, -Inf at zero, +Inf at +Inf
Log(x) ==
    IF x.k = "nan" THEN NaN
    ELSE IF x.k = "inf" THEN (IF x.n > 0 THEN PInf ELSE NaN)
    ELSE IF x.n < 0 THEN NaN
    ELSE IF x.n = 0 THEN NInf
    ELSE IF x.d = 1 THEN Fin(LnMilli(x.n), 1000)
    ELSE FAdd(Fin(LnMilli(x.n), 1000), Fin(-LnMilli(x.d), 1000))

(***************************************************************************)
(* package algorithm: distributions                                        *)
(***************************************************************************)
Nil == [nil |-> TRUE]

\* the normalize functions of the registry; a Go func value is modelled by
\* the tag of its body, applied with Apply
normalizationFuncs == [linear |-> "fn_identity", zapfian |-> "fn_log1p"]

DefaultDistributionName == "linear"

Apply(fn, v) ==
    IF fn = "fn_identity" THEN v
    ELSE Log(FAdd(FInt(1), v))

LookupDistributionFallback(name) ==
    IF name \in DOMAIN normalizationFuncs
    THEN [name |-> name, normalizeFn |-> normalizationFuncs[name]]
    ELSE [name |-> DefaultDistributionName,
          normalizeFn |-> normalizationFuncs[DefaultDistributionName]]

LookupDistribution(name) ==
    IF name \notin DOMAIN normalizationFuncs
    THEN Nil
    ELSE [name |-> name, normalizeFn |-> normalizationFuncs[name]]

\* Distribution.Normalize
Normalize(d, v) == Apply(d.normalizeFn, v)

\* Distribution.String
DistributionString(d) == d.name

(***************************************************************************)
(* package algorithm: Input (its Value method is described by the          *)
(* specification: the raw value of the Input's field, normalized by the    *)
(* Input's distribution, and whether the field is present)                 *)
(***************************************************************************)
\* a record is a Go map[string]float64: a field that is unset has no key
InputValue(i, record) ==
    IF i.Field \notin DOMAIN record
    THEN [v |-> FInt(0), ok |-> FALSE]
    ELSE [v |-> Normalize(i.Distribution, FInt(record[i.Field])), ok |-> TRUE]

(***************************************************************************)
(* package wam: WeightedArithmeticMean.Score                               *)
(***************************************************************************)
\* one iteration of the loop over p.inputs, on the accumulators
ScoreStepZeroed(acc, i, record) ==
    LET r == InputValue(i, record)
    IN  [itemCount |-> FAdd(acc.itemCount, FInt(i.Weight)),
         itemSum |-> FAdd(acc.itemSum, FMul(FInt(i.Weight), r.v))]

ScoreStepCounted(acc, i, record) ==
    LET r == InputValue(i, record)
    IN  IF r.ok
        THEN [itemCount |-> FAdd(acc.itemCount, FInt(1)),
              itemSum |-> FAdd(acc.itemSum, FMul(FInt(i.Weight), r.v))]
        ELSE acc

ScoreStep(acc, i, record) ==
    LET r == InputValue(i, record)
    IN  IF r.ok
        THEN [itemCount |-> FAdd(acc.itemCount, FInt(i.Weight)),
              itemSum |-> FAdd(acc.itemSum, FMul(FInt(i.Weight), r.v))]
        ELSE acc

RECURSIVE ScoreLoop(_, _, _, _)
ScoreLoop(inputs, record, k, acc) ==
    IF k > Len(inputs) THEN acc
    ELSE ScoreLoop(inputs, record, k + 1, ScoreStep(acc, inputs[k], record))

ScoreZeroWhenEmpty(inputs, record) ==
    LET acc == ScoreLoop(inputs, record, 1,
                         [itemSum |-> FInt(0), itemCount |-> FInt(0)])
    IN  IF acc.itemCount = FInt(0) THEN FInt(0)
        ELSE FDiv(acc.itemSum, acc.itemCount)

Score(inputs, record) ==
    LET acc == ScoreLoop(inputs, record, 1,
                         [itemSum |-> FInt(0), itemCount |-> FInt(0)])
    IN  FDiv(acc.itemSum, acc.itemCount)

(***************************************************************************)
(* Go errors: an error is the chain of its messages, outermost first; the  *)
(* nil error is the empty chain.  fmt.Errorf("msg: %w", err) wraps.        *)
(***************************************************************************)
NoError == <<>>
Errorf(msg, err) == <<msg>> \o err
ErrorsIs(err, target) ==
    /\ target # NoError
    /\ \E k \in 1..Len(err) : SubSeq(err, k, Len(err)) = target

(***************************************************************************)
(* package signalio: WriterType and its text form (type.go is described by *)
(* the specification and by type_test.go)                                  *)
(***************************************************************************)
WriterTypeCSV == 0
WriterTypeJSON == 1
WriterTypeText == 2

ErrorUnknownWriterType == <<"unknown writer type">>

MarshalTextDefaultCSV(t) ==
    CASE t = WriterTypeJSON -> [text |-> "json", err |-> NoError]
      [] t = WriterTypeText -> [text |-> "text", err |-> NoError]
      [] OTHER -> [text |-> "csv", err |-> NoError]

MarshalText(t) ==
    CASE t = WriterTypeCSV -> [text |-> "csv", err |-> NoError]
      [] t = WriterTypeJSON -> [text |-> "json", err |-> NoError]
      [] t = WriterTypeText -> [text |-> "text", err |-> NoError]
      [] OTHER -> [text |-> "", err |-> ErrorUnknownWriterType]

\* t0 is the receiver's value before the call; it is kept on failure
UnmarshalText(t0, text) ==
    CASE text = "csv" -> [t |-> WriterTypeCSV, err |-> NoError]
      [] text = "json" -> [t |-> WriterTypeJSON, err |-> NoError]
      [] text = "text" -> [t |-> WriterTypeText, err |-> NoError]
      [] OTHER -> [t |-> t0, err |-> ErrorUnknownWriterType]

\* WriterType.String
WriterTypeString(t) ==
    LET m == MarshalText(t) IN IF m.err # NoError THEN "" ELSE m.text

(***************************************************************************)
(* Inputs of the pure functions.                                           *)
(***************************************************************************)
Fields == {"depsdev.dependent_count", "github_mentions.github_mention_count"}
Values == {-1, 0, 4, 10}
DistributionNames == {"linear", "zapfian", "", "Linear", "zipfian", "identity"}
WriterTypes == {WriterTypeCSV, WriterTypeJSON, WriterTypeText, 3, 10}
Texts == {"csv", "json", "text", "", "unknown", "CSV"}

Records == UNION {[D -> Values] : D \in SUBSET Fields}

\* the Inputs a configuration can build: the distribution is looked up by
\* name, and a name the registry lacks builds no Input
Inputs ==
    {[Field |-> f, Weight |-> w, Distribution |-> LookupDistribution(n)] :
        f \in Fields, w \in 0..MaxWeight,
        n \in {m \in DistributionNames : LookupDistribution(m) # Nil}}

InputLists == UNION {[1..n -> Inputs] : n \in 0..MaxInputs}

(***************************************************************************)
(* Repository URLs given to the sources: a *url.URL with its Host (name    *)
(* and port) and its Path, the Path a sequence of characters               *)
(***************************************************************************)
Chars == {"/", "a", "b"}
Paths == UNION {[1..n -> Chars] : n \in 0..MaxPathLen}

Hosts ==
    {[name |-> "github.com", port |-> ""],
     [name |-> "github.com", port |-> "443"],
     [name |-> "gitlab.com", port |-> ""],
     [name |-> "GitHub.com", port |-> ""],
     [name |-> "", port |-> ""]}

URLs == {[Host |-> h, Path |-> q] : h \in Hosts, q \in Paths}

\* url.URL.Hostname: the host without its port
Hostname(u) == u.Host.name

RECURSIVE TrimLeft(_, _)
TrimLeft(str, c) ==
    IF str # <<>> /\ Head(str) = c THEN TrimLeft(Tail(str), c) ELSE str

RECURSIVE TrimRight(_, _)
TrimRight(str, c) ==
    IF str # <<>> /\ str[Len(str)] = c
    THEN TrimRight(SubSeq(str, 1, Len(str) - 1), c) ELSE str

\* strings.Trim(str, c) for a one-character cutset
Trim(str, c) == TrimRight(TrimLeft(str, c), c)

RECURSIVE Split(_, _)
\* strings.Split(str, sep) for a one-character separator: the pieces
\* between the separators, one piece (the whole string) when there is none
Split(str, sep) ==
    IF \A k \in 1..Len(str) : str[k] # sep THEN <<str>>
    ELSE LET k == CHOOSE j \in 1..Len(str) :
                      str[j] = sep /\ \A h \in 1..(j - 1) : str[h] # sep
         IN  <<SubSeq(str, 1, k - 1)>> \o Split(SubSeq(str, k + 1, Len(str)), sep)

(***************************************************************************)
(* package depsdev: the deps.dev source                                    *)
(***************************************************************************)
\* signal.Field[int]: unset, or set to a value
UnsetField == [set |-> FALSE, value |-> 0]
FieldSet(f, v) == [set |-> TRUE, value |-> v]

\* var s depsDevSet
EmptyDepsDevSet == [DependentCount |-> UnsetField]

parseRepoURL(u) ==
    IF Hostname(u) = "github.com"
    THEN [projectName |-> Trim(u.Path, "/"), projectType |-> "GITHUB"]
    ELSE [projectName |-> <<>>, projectType |-> ""]

\* depsDevSource.IsSupported
IsSupported(u) == parseRepoURL(u).projectType # ""

\* what dependents.Count may return: (deps, found, err)
CountResults ==
    {[deps |-> n, found |-> f, err |-> e] :
        n \in {0, 7}, f \in BOOLEAN, e \in {NoError, <<"bigquery error">>}}

GetSetsWhenNotFound(u, count) ==
    LET r == parseRepoURL(u) IN
    IF r.projectType = ""
    THEN [s |-> EmptyDepsDevSet, err |-> NoError, queried |-> FALSE, n |-> <<>>]
    ELSE IF count.err # NoError
    THEN [s |-> Nil, queried |-> TRUE, n |-> r.projectName,
          err |-> Errorf("failed to fetch deps.dev dependent count", count.err)]
    ELSE [s |-> [EmptyDepsDevSet EXCEPT
                    !.DependentCount = FieldSet(@, count.deps)],
          err |-> NoError, queried |-> TRUE, n |-> r.projectName]

\* depsDevSource.Get; count is what c.dependents.Count returns if called,
\* queried whether it was called and n the project name it was called with
Get(u, count) ==
    LET r == parseRepoURL(u) IN
    IF r.projectType = ""
    THEN [s |-> EmptyDepsDevSet, err |-> NoError, queried |-> FALSE, n |-> <<>>]
    ELSE IF count.err # NoError
    THEN [s |-> Nil, queried |-> TRUE, n |-> r.projectName,
          err |-> Errorf("failed to fetch deps.dev dependent count", count.err)]
    ELSE [s |-> IF count.found
                THEN [EmptyDepsDevSet EXCEPT
                         !.DependentCount = FieldSet(@, count.deps)]
                ELSE EmptyDepsDevSet,
          err |-> NoError, queried |-> TRUE, n |-> r.projectName]

(***************************************************************************)
(* package github: queryBasicRepoData                                      *)
(***************************************************************************)
\* queryErr is what client.Query returns if it is reached; an index past
\* the end of parts is a run-time panic
queryBasicRepoData(u, queryErr) ==
    LET parts == Split(Trim(u.Path, "/"), "/") IN
    IF Len(parts) < 2
    THEN [panic |-> TRUE, queried |-> FALSE, owner |-> <<>>, name |-> <<>>,
          err |-> NoError]
    ELSE [panic |-> FALSE, queried |-> TRUE, owner |-> parts[1], name |-> parts[2],
          err |-> queryErr]

Calls ==
    {[op |-> "Score", inputs |-> i, record |-> r] : i \in InputLists, r \in Records}
    \cup {[op |-> "LookupDistribution", name |-> n] : n \in DistributionNames}
    \cup {[op |-> "MarshalText", t |-> t] : t \in WriterTypes}
    \cup {[op |-> "UnmarshalText", t0 |-> t, text |-> x] :
             t \in {WriterTypeCSV, WriterTypeText}, x \in Texts}
    \cup {[op |-> "IsSupported", u |-> u] : u \in URLs}
    \cup {[op |-> "Get", u |-> u, count |-> c] : u \in URLs, c \in CountResults}
    \cup {[op |-> "queryBasicRepoData", u |-> u, queryErr |-> e] :
             u \in {v \in URLs : Hostname(v) = "github.com" /\ v.Host.port = ""},
             e \in {NoError, <<"graphql error">>}}

(***************************************************************************)
(* Go strings as the two words of their header.  The zero string is        *)
(* (nil, 0); comparing or copying the bytes of a string whose pointer is   *)
(* nil and whose length is not 0 faults.                                   *)
(***************************************************************************)
NilPtr == "<nil>"

StrLen(s) ==
    CASE s = "" -> 0
      [] s = "-missing-" -> 9
      [] s = "4f2a91c" -> 7
      [] s = "git" -> 3

GoString(s) == IF s = "" THEN [p |-> NilPtr, n |-> 0] ELSE [p |-> s, n |-> StrLen(s)]

\* x == lit dereferences x only when the lengths agree
EqFaults(x, lit) == x.n = StrLen(lit) /\ x.n > 0 /\ x.p = NilPtr
StrEq(x, lit) == x.n = StrLen(lit) /\ (x.n = 0 \/ x.p = lit)
ReadFaults(x) == x.n > 0 /\ x.p = NilPtr

(***************************************************************************)
(* package vcs                                                             *)
(***************************************************************************)
MissingCommitID == "-missing-"
commitIDKey == "vcs.revision"

BuildInfos ==
    {[ok |-> FALSE, Settings |-> <<>>],
     [ok |-> TRUE, Settings |-> <<[Key |-> "vcs", Value |-> "git"]>>],
     [ok |-> TRUE, Settings |-> <<[Key |-> "vcs", Value |-> "git"],
                                  [Key |-> commitIDKey, Value |-> "4f2a91c"]>>],
     [ok |-> TRUE, Settings |-> <<[Key |-> commitIDKey, Value |-> ""]>>]}

RECURSIVE fetchLoop(_, _)
fetchLoop(settings, k) ==
    IF k > Len(settings) THEN MissingCommitID
    ELSE IF settings[k].Key = commitIDKey THEN settings[k].Value
    ELSE fetchLoop(settings, k + 1)

fetchCommitID(info) ==
    IF ~info.ok THEN MissingCommitID ELSE fetchLoop(info.Settings, 1)

(***************************************************************************)
(* What Process is given: the shard, the collector, the scorer, writers    *)
(***************************************************************************)
Workers == {1, 2}

GithubURL == "https://github.com/ossf/scorecard"
RawURLs == {"", "%zz", GithubURL}

\* net/url.Parse on the URLs of the model
urlParse(rawURL) ==
    CASE rawURL = GithubURL ->
           [ok |-> TRUE, Hostname |-> "github.com", Path |-> "/ossf/scorecard"]
      [] rawURL = "" -> [ok |-> TRUE, Hostname |-> "", Path |-> ""]
      [] OTHER -> [ok |-> FALSE, Hostname |-> "", Path |-> ""]

Shards == UNION {[1..n -> RawURLs] : n \in 0..MaxRepos}

\* the empty Sets of the registered sources, in registration order
EmptySets ==
    <<[Namespace |-> "depsdev", keys |-> <<"dependent_count">>],
      [Namespace |-> "github_mentions", keys |-> <<"github_mention_count">>]>>

SetColumns(set) == [k \in 1..Len(set.keys) |-> set.Namespace \o "." \o set.keys[k]]

RECURSIVE Flatten(_, _)
Flatten(sets, k) ==
    IF k > Len(sets) THEN <<>> ELSE SetColumns(sets[k]) \o Flatten(sets, k + 1)

\* signalio.CSVWriter: the header is the columns of the empty Sets followed
\* by the extra column names
CSVWriterColumns(emptySets, extra) == Flatten(emptySets, 1) \o extra

ErrUncollectableRepo == <<"repo is uncollectable">>

\* what Collector.Collect may return for a repository: the signals of the
\* sources that had data, or an error
CollectedSets ==
    {<<>>,
     [f \in {"depsdev.dependent_count"} |-> 4],
     [f \in Fields |-> IF f = "depsdev.dependent_count" THEN 4 ELSE 10]}

CollectErrors ==
    {ErrUncollectableRepo,
     Errorf("github: repo not found", ErrUncollectableRepo),
     <<"transport failure">>}

NoSets == <<>>
CollectResults ==
    {[ss |-> r, err |-> NoError] : r \in CollectedSets}
    \cup {[ss |-> NoSets, err |-> e] : e \in CollectErrors}

\* the Inputs a worker's scorer may be configured with
ScorerConfigs ==
    {<<[Field |-> "depsdev.dependent_count", Weight |-> 2,
        Distribution |-> LookupDistribution("linear")],
       [Field |-> "github_mentions.github_mention_count", Weight |-> 1,
        Distribution |-> LookupDistribution("zapfian")]>>,
     <<[Field |-> "depsdev.dependent_count", Weight |-> 0,
        Distribution |-> LookupDistribution("linear")]>>,
     <<[Field |-> "github_mentions.github_mention_count", Weight |-> 1,
        Distribution |-> LookupDistribution("zapfian")]>>,
     <<>>}

\* Scorer.Score delegates to its algorithm
ScorerScore(inputs, sets) == Score(inputs, sets)

\* the collectWorker: s is whether a scorer is configured
Cfgs ==
    {[s |-> TRUE, inputs |-> i, scoreColumnName |-> "default_score",
      csvBucketURL |-> b] : i \in ScorerConfigs, b \in {"", "gs://csv"}}
    \cup {[s |-> FALSE, inputs |-> <<>>, scoreColumnName |-> "",
           csvBucketURL |-> b] : b \in {"", "gs://csv"}}

(***************************************************************************)
(* fmt.Sprintf("%.5f", x): the decimal to five places, or NaN, +Inf, -Inf  *)
(***************************************************************************)
RoundHalfEven(a, d) ==
    LET q == a \div d
        r == a % d
    IN  IF 2 * r < d THEN q
        ELSE IF 2 * r > d THEN q + 1
        ELSE IF q % 2 = 0 THEN q ELSE q + 1

Sprintf5fTruncNaN(x) ==
    IF x.k = "fin"
    THEN [txt |-> "dec", neg |-> x.n < 0,
          hundredThousandths |-> RoundHalfEven(Abs(x.n) * 100000, x.d)]
    ELSE [txt |-> "dec", neg |-> FALSE, hundredThousandths |-> 0]

Sprintf5f(x) ==
    IF x.k = "nan" THEN [txt |-> "NaN", neg |-> FALSE, hundredThousandths |-> 0]
    ELSE IF x.k = "inf"
    THEN [txt |-> IF x.n > 0 THEN "+Inf" ELSE "-Inf", neg |-> x.n < 0,
          hundredThousandths |-> 0]
    ELSE [txt |-> "dec", neg |-> x.n < 0,
          hundredThousandths |-> RoundHalfEven(Abs(x.n) * 100000, x.d)]

(***************************************************************************)
(* collectWorker.Process, in steps                                         *)
(***************************************************************************)
collectionDateColumnName == "collection_date"
commitIDColumnName == "worker_commit_id"
JobTime == "jobTime"

\* the outer extras: the extra column names handed to CSVWriter
HeaderExtrasNoCommit(w, c) ==
    (IF w.s THEN <<w.scoreColumnName>> ELSE <<>>) \o <<collectionDateColumnName>>

HeaderExtras(w, c) ==
    (IF w.s THEN <<w.scoreColumnName>> ELSE <<>>)
    \o <<collectionDateColumnName>>
    \o (IF ~StrEq(c, MissingCommitID) THEN <<commitIDColumnName>> ELSE <<>>)

\* the inner extras: the extra fields of one record
RecordExtras(w, score, c) ==
    (IF w.s THEN <<[Key |-> w.scoreColumnName, Value |-> Sprintf5f(score)]>> ELSE <<>>)
    \o <<[Key |-> collectionDateColumnName, Value |-> JobTime]>>
    \o (IF ~StrEq(c, MissingCommitID)
        THEN <<[Key |-> commitIDColumnName, Value |-> c]>> ELSE <<>>)

\* what the loop body does with a repository, up to the Collect call:
\* "skip" (continue), "fatal" (return the error) or "write"
DispositionAbortOnUncollectable(rawURL, err) ==
    IF rawURL = "" THEN "skip"
    ELSE IF ~urlParse(rawURL).ok THEN "skip"
    ELSE IF err # NoError THEN "fatal"
    ELSE "write"

DispositionSkipAllErrors(rawURL, err) ==
    IF rawURL = "" THEN "skip"
    ELSE IF ~urlParse(rawURL).ok THEN "skip"
    ELSE IF err # NoError THEN "skip"
    ELSE "write"

Disposition(rawURL, err) ==
    IF rawURL = "" THEN "skip"
    ELSE IF ~urlParse(rawURL).ok THEN "skip"
    ELSE IF err # NoError
    THEN (IF ErrorsIs(err, ErrUncollectableRepo) THEN "skip" ELSE "fatal")
    ELSE "write"

\* the repository's end as the log tells it
Ending(rawURL, err) ==
    IF rawURL = "" THEN "empty"
    ELSE IF ~urlParse(rawURL).ok THEN "unparsable"
    ELSE IF err = NoError THEN "collected"
    ELSE IF ErrorsIs(err, ErrUncollectableRepo) THEN "uncollectable"
    ELSE "failed"

Running == [done |-> FALSE, err |-> NoError]
Return(err) == [done |-> TRUE, err |-> err]

Start(w) ==
    /\ pc[w] = "start"
    /\ pc' = [pc EXCEPT ![w] = "cid_check"]
    /\ cont' = [cont EXCEPT ![w] = "hdr"]
    /\ UNCHANGED <<call, result, buildInfo, commitID, cfg, req, local, cid, idx,
                   extras, csvCols, ss, recExtras, scoreVal, jsonOutput, csvOutput,
                   blobs, outcome, ret>>

\* CommitID: load commitID and test it against ""; when empty, fetch
CidCheck(w) ==
    /\ pc[w] = "cid_check"
    /\ IF commitID.n = 0
       THEN /\ local' = [local EXCEPT ![w] = GoString(fetchCommitID(buildInfo))]
            /\ pc' = [pc EXCEPT ![w] = "cid_store"]
       ELSE /\ local' = [local EXCEPT ![w] = commitID]
            /\ pc' = [pc EXCEPT ![w] = "cid_ret"]
    /\ UNCHANGED <<call, result, buildInfo, commitID, cfg, req, cont, cid, idx,
                   extras, csvCols, ss, recExtras, scoreVal, jsonOutput, csvOutput,
                   blobs, outcome, ret>>

\* CommitID: commitID = fetchCommitID(), the first word stored (either one)
CidStore(w) ==
    /\ pc[w] = "cid_store"
    /\ \E word \in {"p", "n"} :
          /\ commitID' = [commitID EXCEPT ![word] = local[w][word]]
          /\ pc' = [pc EXCEPT ![w] = IF word = "p" THEN "cid_store_n" ELSE "cid_store_p"]
    /\ UNCHANGED <<call, result, buildInfo, cfg, req, cont, local, cid, idx,
                   extras, csvCols, ss, recExtras, scoreVal, jsonOutput, csvOutput,
                   blobs, outcome, ret>>

\* CommitID: the second word stored
CidStore2(w) ==
    /\ pc[w] \in {"cid_store_n", "cid_store_p"}
    /\ commitID' = IF pc[w] = "cid_store_n"
                   THEN [commitID EXCEPT !.n = local[w].n]
                   ELSE [commitID EXCEPT !.p = local[w].p]
    /\ pc' = [pc EXCEPT ![w] = "cid_ret"]
    /\ UNCHANGED <<call, result, buildInfo, cfg, req, cont, local, cid, idx,
                   extras, csvCols, ss, recExtras, scoreVal, jsonOutput, csvOutput,
                   blobs, outcome, ret>>

\* CommitID: return commitID (reloaded, or the value already in a register)
CidRet(w) ==
    /\ pc[w] = "cid_ret"
    /\ \E v \in {commitID, local[w]} : cid' = [cid EXCEPT ![w] = v]
    /\ pc' = [pc EXCEPT ![w] = cont[w]]
    /\ UNCHANGED <<call, result, buildInfo, commitID, cfg, req, cont, local, idx,
                   extras, csvCols, ss, recExtras, scoreVal, jsonOutput, csvOutput,
                   blobs, outcome, ret>>

\* Process: the extras, the JSON writer and the CSV writer are prepared
Hdr(w) ==
    /\ pc[w] = "hdr"
    /\ IF EqFaults(cid[w], MissingCommitID)
       THEN /\ pc' = [pc EXCEPT ![w] = "panic"]
            /\ UNCHANGED <<extras, csvCols, idx>>
       ELSE /\ extras' = [extras EXCEPT ![w] = HeaderExtras(cfg, cid[w])]
            /\ csvCols' = [csvCols EXCEPT ![w] = CSVWriterColumns(EmptySets, extras'[w])]
            /\ idx' = [idx EXCEPT ![w] = 1]
            /\ pc' = [pc EXCEPT ![w] = "loop"]
    /\ UNCHANGED <<call, result, buildInfo, commitID, cfg, req, cont, local, cid,
                   ss, recExtras, scoreVal, jsonOutput, csvOutput, blobs, outcome, ret>>

\* Process: one turn of the loop over req.GetRepos(), up to the scoring
Loop(w) ==
    /\ pc[w] = "loop"
    /\ IF idx[w] > Len(req[w])
       THEN /\ pc' = [pc EXCEPT ![w] = "csv_blob"]
            /\ UNCHANGED <<cont, idx, ss, scoreVal, outcome, ret>>
       ELSE LET rawURL == req[w][idx[w]] IN
            \E c \in IF rawURL # "" /\ urlParse(rawURL).ok
                      THEN CollectResults
                      ELSE {[ss |-> NoSets, err |-> NoError]} :
              LET d == Disposition(rawURL, c.err) IN
              /\ outcome' = [outcome EXCEPT ![w] = Append(@, Ending(rawURL, c.err))]
              /\ IF d = "skip"
                 THEN /\ idx' = [idx EXCEPT ![w] = @ + 1]
                      /\ UNCHANGED <<pc, cont, ss, scoreVal, ret>>
                 ELSE IF d = "fatal"
                 THEN /\ ret' = [ret EXCEPT ![w] =
                                   Return(Errorf("failed during signal collection", c.err))]
                      /\ pc' = [pc EXCEPT ![w] = "done"]
                      /\ UNCHANGED <<cont, idx, ss, scoreVal>>
                 ELSE /\ ss' = [ss EXCEPT ![w] = c.ss]
                      /\ scoreVal' = [scoreVal EXCEPT ![w] =
                                        IF cfg.s THEN ScorerScore(cfg.inputs, c.ss) ELSE @]
                      /\ pc' = [pc EXCEPT ![w] = "cid_check"]
                      /\ cont' = [cont EXCEPT ![w] = "rec"]
                      /\ UNCHANGED <<idx, ret>>
    /\ UNCHANGED <<call, result, buildInfo, commitID, cfg, req, local, cid, extras,
                   csvCols, recExtras, jsonOutput, csvOutput, blobs>>

RecCsvErrorIgnored(w) ==
    /\ pc[w] = "rec"
    /\ IF EqFaults(cid[w], MissingCommitID)
          \/ (~StrEq(cid[w], MissingCommitID) /\ ReadFaults(cid[w]))
       THEN /\ pc' = [pc EXCEPT ![w] = "panic"]
            /\ UNCHANGED <<idx, recExtras, jsonOutput, csvOutput, ret>>
       ELSE LET x == RecordExtras(cfg, scoreVal[w], cid[w])
                r == [repo |-> idx[w], ss |-> ss[w], extras |-> x]
            IN  /\ recExtras' = [recExtras EXCEPT ![w] = x]
                /\ \E wrote \in {"none", "json", "both"} :
                      /\ jsonOutput' = [jsonOutput EXCEPT ![w] =
                                          IF wrote = "none" THEN @ ELSE Append(@, r)]
                      /\ csvOutput' = [csvOutput EXCEPT ![w] =
                                         IF wrote = "both" THEN Append(@, r) ELSE @]
                      /\ IF wrote # "none"
                         THEN /\ idx' = [idx EXCEPT ![w] = @ + 1]
                              /\ pc' = [pc EXCEPT ![w] = "loop"]
                              /\ UNCHANGED ret
                         ELSE /\ ret' = [ret EXCEPT ![w] =
                                           Return(Errorf("failed writing signals",
                                                         <<"write error">>))]
                              /\ pc' = [pc EXCEPT ![w] = "done"]
                              /\ UNCHANGED idx
    /\ UNCHANGED <<call, result, buildInfo, commitID, cfg, req, cont, local, cid,
                   extras, csvCols, ss, scoreVal, blobs, outcome>>

\* Process: the record's extras are completed and the record is written,
\* to jsonOut and then to csvOut; either WriteSignals may fail
Rec(w) ==
    /\ pc[w] = "rec"
    /\ IF EqFaults(cid[w], MissingCommitID)
          \/ (~StrEq(cid[w], MissingCommitID) /\ ReadFaults(cid[w]))
       THEN /\ pc' = [pc EXCEPT ![w] = "panic"]
            /\ UNCHANGED <<idx, recExtras, jsonOutput, csvOutput, ret>>
       ELSE LET x == RecordExtras(cfg, scoreVal[w], cid[w])
                r == [repo |-> idx[w], ss |-> ss[w], extras |-> x]
            IN  /\ recExtras' = [recExtras EXCEPT ![w] = x]
                /\ \E wrote \in {"none", "json", "both"} :
                      /\ jsonOutput' = [jsonOutput EXCEPT ![w] =
                                          IF wrote = "none" THEN @ ELSE Append(@, r)]
                      /\ csvOutput' = [csvOutput EXCEPT ![w] =
                                         IF wrote = "both" THEN Append(@, r) ELSE @]
                      /\ IF wrote = "both"
                         THEN /\ idx' = [idx EXCEPT ![w] = @ + 1]
                              /\ pc' = [pc EXCEPT ![w] = "loop"]
                              /\ UNCHANGED ret
                         ELSE /\ ret' = [ret EXCEPT ![w] =
                                           Return(Errorf("failed writing signals",
                                                         <<"write error">>))]
                              /\ pc' = [pc EXCEPT ![w] = "done"]
                              /\ UNCHANGED idx
    /\ UNCHANGED <<call, result, buildInfo, commitID, cfg, req, cont, local, cid,
                   extras, csvCols, ss, scoreVal, blobs, outcome>>

CsvBlobErrorIgnored(w) ==
    /\ pc[w] = "csv_blob"
    /\ IF cfg.csvBucketURL = ""
       THEN UNCHANGED blobs
       ELSE \E ok \in BOOLEAN :
              IF ok
              THEN blobs' = [blobs EXCEPT ![w] =
                               Append(@, [bucket |-> cfg.csvBucketURL,
                                          data |-> csvOutput[w]])]
              ELSE UNCHANGED blobs
    /\ pc' = [pc EXCEPT ![w] = "json_blob"]
    /\ UNCHANGED <<call, result, buildInfo, commitID, cfg, req, cont, local, cid, idx,
                   extras, csvCols, ss, recExtras, scoreVal, jsonOutput, csvOutput,
                   outcome, ret>>

\* Process: the CSV blob, when a CSV bucket is configured
CsvBlob(w) ==
    /\ pc[w] = "csv_blob"
    /\ IF cfg.csvBucketURL = ""
       THEN /\ pc' = [pc EXCEPT ![w] = "json_blob"]
            /\ UNCHANGED <<blobs, ret>>
       ELSE \E ok \in BOOLEAN :
              IF ok
              THEN /\ blobs' = [blobs EXCEPT ![w] =
                                  Append(@, [bucket |-> cfg.csvBucketURL,
                                             data |-> csvOutput[w]])]
                   /\ pc' = [pc EXCEPT ![w] = "json_blob"]
                   /\ UNCHANGED ret
              ELSE /\ ret' = [ret EXCEPT ![w] =
                                Return(Errorf("error writing csv to blob store",
                                              <<"blob store error">>))]
                   /\ pc' = [pc EXCEPT ![w] = "done"]
                   /\ UNCHANGED blobs
    /\ UNCHANGED <<call, result, buildInfo, commitID, cfg, req, cont, local, cid, idx,
                   extras, csvCols, ss, recExtras, scoreVal, jsonOutput, csvOutput,
                   outcome>>

CanonicalBucket == "gs://canonical"

\* Process: the canonical (JSON) blob, and the return
JsonBlob(w) ==
    /\ pc[w] = "json_blob"
    /\ \E ok \in BOOLEAN :
          IF ok
          THEN /\ blobs' = [blobs EXCEPT ![w] =
                              Append(@, [bucket |-> CanonicalBucket,
                                         data |-> jsonOutput[w]])]
               /\ ret' = [ret EXCEPT ![w] = Return(NoError)]
          ELSE /\ ret' = [ret EXCEPT ![w] =
                            Return(Errorf("error writing json to blob store",
                                          <<"blob store error">>))]
               /\ UNCHANGED blobs
    /\ pc' = [pc EXCEPT ![w] = "done"]
    /\ UNCHANGED <<call, result, buildInfo, commitID, cfg, req, cont, local, cid, idx,
                   extras, csvCols, ss, recExtras, scoreVal, jsonOutput, csvOutput,
                   outcome>>

(***************************************************************************)
(* The pure functions, applied to the call drawn by InitPure               *)
(***************************************************************************)
NoCall == [op |-> "none"]

DoScore ==
    /\ call.op = "Score" /\ result = Nil
    /\ result' = [score |-> Score(call.inputs, call.record)]
    /\ UNCHANGED <<call, procVars>>

DoLookupDistribution ==
    /\ call.op = "LookupDistribution" /\ result = Nil
    /\ result' = [d |-> LookupDistribution(call.name)]
    /\ UNCHANGED <<call, procVars>>

\* MarshalText, and UnmarshalText of the text it gave into a zero WriterType
DoMarshalText ==
    /\ call.op = "MarshalText" /\ result = Nil
    /\ LET m == MarshalText(call.t) IN
       result' = [m |-> m,
                  back |-> IF m.err = NoError
                           THEN UnmarshalText(WriterTypeCSV, m.text)
                           ELSE [t |-> WriterTypeCSV, err |-> m.err]]
    /\ UNCHANGED <<call, procVars>>

DoUnmarshalText ==
    /\ call.op = "UnmarshalText" /\ result = Nil
    /\ result' = [u |-> UnmarshalText(call.t0, call.text)]
    /\ UNCHANGED <<call, procVars>>

DoIsSupported ==
    /\ call.op = "IsSupported" /\ result = Nil
    /\ result' = [ok |-> IsSupported(call.u)]
    /\ UNCHANGED <<call, procVars>>

DoGet ==
    /\ call.op = "Get" /\ result = Nil
    /\ result' = Get(call.u, call.count)
    /\ UNCHANGED <<call, procVars>>

DoQueryBasicRepoData ==
    /\ call.op = "queryBasicRepoData" /\ result = Nil
    /\ result' = queryBasicRepoData(call.u, call.queryErr)
    /\ UNCHANGED <<call, procVars>>

(***************************************************************************)
(* Specifications                                                          *)
(***************************************************************************)
InitWorkers(running) ==
    /\ buildInfo \in BuildInfos
    /\ commitID = GoString("")
    /\ cfg \in Cfgs
    /\ pc = [w \in Workers |-> IF w \in running THEN "start" ELSE "off"]
    /\ cont = [w \in Workers |-> "hdr"]
    /\ local = [w \in Workers |-> GoString("")]
    /\ cid = [w \in Workers |-> GoString("")]
    /\ idx = [w \in Workers |-> 0]
    /\ extras = [w \in Workers |-> <<>>]
    /\ csvCols = [w \in Workers |-> <<>>]
    /\ ss = [w \in Workers |-> NoSets]
    /\ recExtras = [w \in Workers |-> <<>>]
    /\ scoreVal = [w \in Workers |-> FInt(0)]
    /\ jsonOutput = [w \in Workers |-> <<>>]
    /\ csvOutput = [w \in Workers |-> <<>>]
    /\ blobs = [w \in Workers |-> <<>>]
    /\ outcome = [w \in Workers |-> <<>>]
    /\ ret = [w \in Workers |-> Running]

\* one worker processes one shard
Init ==
    /\ call = NoCall /\ result = Nil
    /\ InitWorkers({1})
    /\ \E shard \in Shards : req = [w \in Workers |-> IF w = 1 THEN shard ELSE <<>>]

\* two workers of the same process, each with a shard of one repository
InitConc ==
    /\ call = NoCall /\ result = Nil
    /\ InitWorkers(Workers)
    /\ req = [w \in Workers |-> <<GithubURL>>]

\* a pure function is called once
InitPure ==
    /\ call \in Calls /\ result = Nil
    /\ InitWorkers({})
    /\ ~buildInfo.ok /\ ~cfg.s /\ cfg.csvBucketURL = ""
    /\ req = [w \in Workers |-> <<>>]

Next ==
    \E w \in Workers :
        \/ Start(w) \/ CidCheck(w) \/ CidStore(w) \/ CidStore2(w) \/ CidRet(w)
        \/ Hdr(w) \/ Loop(w) \/ Rec(w) \/ CsvBlob(w) \/ JsonBlob(w)

NextPure ==
    \/ DoScore \/ DoLookupDistribution \/ DoMarshalText \/ DoUnmarshalText
    \/ DoIsSupported \/ DoGet \/ DoQueryBasicRepoData

Spec == Init /\ [][Next]_vars
SpecConc == InitConc /\ [][Next]_vars
SpecPure == InitPure /\ [][NextPure]_vars

(***************************************************************************)
(* Properties of the pure functions (SpecPure)                             *)
(***************************************************************************)
Scored == call.op = "Score" /\ result # Nil
Absent(k) == call.inputs[k].Field \notin DOMAIN call.record
Present(inputs, record) == {k \in 1..Len(inputs) : inputs[k].Field \in DOMAIN record}

Without(inputs, k) ==
    [j \in 1..(Len(inputs) - 1) |-> IF j < k THEN inputs[j] ELSE inputs[j + 1]]

\* C1: if an Input's field is absent from the record, Score is the same
\* whatever that Input's weight and distribution are, and the same as
\* without that Input: an absent Input adds nothing to the numerator and
\* nothing to the denominator.
C1_AbsentInputExcluded ==
    Scored =>
        \A k \in 1..Len(call.inputs) :
            Absent(k) =>
                /\ \A other \in Inputs :
                      other.Field = call.inputs[k].Field =>
                          Score([call.inputs EXCEPT ![k] = other], call.record)
                              = result.score
                /\ Score(Without(call.inputs, k), call.record) = result.score

\* an absent Input of non-zero weight beside a present one, a finite score
C1_Witness ==
    /\ Scored
    /\ IsFinite(result.score)
    /\ \E k \in 1..Len(call.inputs) : Absent(k) /\ call.inputs[k].Weight > 0
    /\ Present(call.inputs, call.record) # {}

RECURSIVE SumOver(_, _, _, _)
\* the sum over the Inputs S of weight (num = FALSE) or of
\* weight * normalized value (num = TRUE)
SumOver(inputs, record, S, num) ==
    IF S = {} THEN FInt(0)
    ELSE LET k == CHOOSE j \in S : TRUE
             i == inputs[k]
             t == IF num
                  THEN FMul(FInt(i.Weight),
                            Apply(normalizationFuncs[i.Distribution.name],
                                  FInt(record[i.Field])))
                  ELSE FInt(i.Weight)
         IN  FAdd(t, SumOver(inputs, record, S \ {k}, num))

InputA == [Field |-> "depsdev.dependent_count", Weight |-> 2,
           Distribution |-> LookupDistribution("linear")]
InputB == [Field |-> "github_mentions.github_mention_count", Weight |-> 1,
           Distribution |-> LookupDistribution("linear")]
RecordAB == [f \in Fields |-> IF f = InputA.Field THEN 10 ELSE 4]
RecordA == [f \in {InputA.Field} |-> 10]

\* C2: with at least one configured Input present, Score is the sum over the
\* present Inputs of weight * normalized value, divided by the sum over the
\* present Inputs of weight; A (weight 2) and B (weight 1), both linear,
\* give 8 on {A=10, B=4} and 10 on {A=10}.
C2_WeightedMean ==
    Scored =>
        LET P == Present(call.inputs, call.record) IN
        /\ P # {} =>
              result.score = FDiv(SumOver(call.inputs, call.record, P, TRUE),
                                  SumOver(call.inputs, call.record, P, FALSE))
        /\ (call.inputs = <<InputA, InputB>> /\ call.record = RecordAB)
              => result.score = FInt(8)
        /\ (call.inputs = <<InputA, InputB>> /\ call.record = RecordA)
              => result.score = FInt(10)

\* the second example has run: B is unset and the score is 10
C2_Witness ==
    /\ Scored
    /\ call.inputs = <<InputA, InputB>> /\ call.record = RecordA
    /\ result.score = FInt(10)

DefinedWriterTypes == {WriterTypeCSV, WriterTypeJSON, WriterTypeText}
DefinedNames == {"csv", "json", "text"}

\* C4: for every defined writer type x, UnmarshalText(MarshalText(x))
\* succeeds and yields x; MarshalText of an undefined writer type fails with
\* ErrorUnknownWriterType; UnmarshalText of a text that is no defined name
\* (the empty text included) fails with ErrorUnknownWriterType.
C4_WriterTypeRoundTrip ==
    /\ (call.op = "MarshalText" /\ result # Nil) =>
          IF call.t \in DefinedWriterTypes
          THEN /\ result.m.err = NoError
               /\ result.m.text \in DefinedNames
               /\ result.back.err = NoError
               /\ result.back.t = call.t
          ELSE ErrorsIs(result.m.err, ErrorUnknownWriterType)
    /\ (call.op = "UnmarshalText" /\ result # Nil) =>
          IF call.text \in DefinedNames
          THEN result.u.err = NoError /\ MarshalText(result.u.t).text = call.text
          ELSE ErrorsIs(result.u.err, ErrorUnknownWriterType)

\* the text type went through both conversions
C4_Witness ==
    /\ call.op = "MarshalText" /\ result # Nil
    /\ call.t = WriterTypeText
    /\ result.m.text = "text" /\ result.back.t = WriterTypeText

\* C5: LookupDistribution returns a Distribution exactly for the names of
\* the registry {linear, zapfian}; it carries the looked-up name and that
\* name's normalize function (linear: v, zapfian: Log(1+v)); for every other
\* name it returns nil, not the default and not an identity transform.
C5_LookupExact ==
    (call.op = "LookupDistribution" /\ result # Nil) =>
        IF call.name \in {"linear", "zapfian"}
        THEN /\ result.d # Nil
             /\ DistributionString(result.d) = call.name
             /\ \A v \in Values :
                   Normalize(result.d, FInt(v)) =
                       IF call.name = "linear" THEN FInt(v)
                       ELSE Log(FInt(1 + v))
        ELSE result.d = Nil

\* a name close to a registered one was looked up and gave nil
C5_Witness ==
    /\ call.op = "LookupDistribution" /\ result # Nil
    /\ call.name = "zipfian" /\ result.d = Nil

(***************************************************************************)
(* Properties of Process (Spec, SpecConc)                                  *)
(***************************************************************************)
Written(w) == {jsonOutput[w][k] : k \in 1..Len(jsonOutput[w])}
                  \cup {csvOutput[w][k] : k \in 1..Len(csvOutput[w])}

\* the record of the repository in hand has been scored and not yet written
ScoredRecord(w) ==
    /\ cfg.s
    /\ \/ pc[w] = "rec"
       \/ pc[w] \in {"cid_check", "cid_store", "cid_store_n", "cid_store_p", "cid_ret"}
            /\ cont[w] = "rec"

\* the total weight of the configured Inputs present in the Set is zero
ZeroWeight(sets) ==
    \A k \in Present(cfg.inputs, sets) : cfg.inputs[k].Weight = 0

\* C3: when the total weight of the Inputs present in a record is zero,
\* Score yields a non-finite result, which is not 0.0, and the score value
\* the worker hands to the writers for that record is not that of a
\* numeric zero.
C3_ZeroWeightDetectable ==
    \A w \in Workers :
        /\ (ScoredRecord(w) /\ ZeroWeight(ss[w])) =>
              ~IsFinite(scoreVal[w]) /\ scoreVal[w] # FInt(0)
        /\ \A r \in Written(w) :
              (cfg.s /\ ZeroWeight(r.ss)) =>
                  /\ r.extras[1].Key = cfg.scoreColumnName
                  /\ r.extras[1].Value.txt \in {"NaN", "+Inf", "-Inf"}
                  /\ r.extras[1].Value # Sprintf5f(FInt(0))

\* a record with no Input present was written to both outputs
C3_Witness ==
    \E w \in Workers :
        /\ cfg.s
        /\ \E k \in 1..Len(csvOutput[w]) :
              /\ DOMAIN csvOutput[w][k].ss = {}
              /\ csvOutput[w][k].extras[1].Value.txt = "NaN"

Skipped == {"empty", "unparsable", "uncollectable"}

\* C6: a repository whose URL is empty or does not parse, or whose Collect
\* call fails with ErrUncollectableRepo, is skipped: no record of it is in
\* the JSON or the CSV output, and Process went on to the next repository
\* instead of returning at it.
C6_SkippedNotWritten ==
    \A w \in Workers :
        \A i \in 1..Len(outcome[w]) :
            outcome[w][i] \in Skipped =>
                /\ \A r \in Written(w) : r.repo # i
                /\ idx[w] > i

\* each kind of skip has happened in one shard, and a later repository of
\* the shard was written
C6_Witness ==
    \E w \in Workers :
        /\ Len(outcome[w]) > 2
        /\ outcome[w][1] \in {"empty", "unparsable"}
        /\ outcome[w][2] = "uncollectable"
        /\ \E r \in Written(w) : r.repo > 2

\* the extra column names this worker must use: the score column iff a
\* scorer is configured, collection_date, worker_commit_id iff the build
\* carries a commit ID
HasCommitID == buildInfo.ok /\ \E k \in 1..Len(buildInfo.Settings) :
                   buildInfo.Settings[k].Key = "vcs.revision"
ExpectedExtras ==
    (IF cfg.s THEN <<cfg.scoreColumnName>> ELSE <<>>)
    \o <<"collection_date">>
    \o (IF HasCommitID THEN <<"worker_commit_id">> ELSE <<>>)

Keys(fields) == [k \in 1..Len(fields) |-> fields[k].Key]

\* C7: once the CSV writer exists its column list is the columns of the
\* collector's empty Sets followed by the extra column names, and every
\* record written in the same Process call carries exactly those extra
\* names in that order (score iff a scorer is configured, collection_date,
\* worker_commit_id iff the commit ID is not the missing sentinel),
\* whichever sources had data.
C7_StableColumns ==
    \A w \in Workers :
        idx[w] > 0 =>
            /\ extras[w] = ExpectedExtras
            /\ csvCols[w] = <<"depsdev.dependent_count",
                              "github_mentions.github_mention_count">> \o extras[w]
            /\ \A r \in Written(w) : Keys(r.extras) = extras[w]

\* two records with different signals present were written under a header
\* with all three extra columns
C7_Witness ==
    \E w \in Workers :
        /\ Len(csvOutput[w]) > 1
        /\ DOMAIN csvOutput[w][1].ss # DOMAIN csvOutput[w][2].ss
        /\ Len(extras[w]) > 2

\* C8: when Collect fails with an error other than ErrUncollectableRepo,
\* Process returns an error wrapping it, writes no row for that repository,
\* processes no later repository and writes neither blob.
C8_FatalCollectAborts ==
    \A w \in Workers :
        \A i \in 1..Len(outcome[w]) :
            outcome[w][i] = "failed" =>
                /\ pc[w] = "done" /\ ret[w].done
                /\ \E e \in CollectErrors :
                      /\ ~ErrorsIs(e, ErrUncollectableRepo)
                      /\ ErrorsIs(ret[w].err, e) /\ ret[w].err # e
                /\ i = Len(outcome[w]) /\ idx[w] = i
                /\ \A r \in Written(w) : r.repo < i
                /\ blobs[w] = <<>>

\* a repository was written and the next one failed fatally
C8_Witness ==
    \E w \in Workers :
        /\ Len(outcome[w]) > 1
        /\ outcome[w][Len(outcome[w])] = "failed"
        /\ Len(csvOutput[w]) > 0
        /\ ret[w].done

CanonicalAt(w) == {k \in 1..Len(blobs[w]) : blobs[w][k].bucket = CanonicalBucket}
Succeeded(w) == ret[w].done /\ ret[w].err = NoError

\* C9: the canonical (JSON) blob is the last thing Process writes: it is
\* written only after every repository of the shard was processed without
\* a fatal error and, when a CSV bucket is configured, only after the CSV
\* blob was written; Process returns success only if it was written.
C9_CanonicalLast ==
    \A w \in Workers :
        /\ CanonicalAt(w) # {} =>
              /\ CanonicalAt(w) = {Len(blobs[w])}
              /\ blobs[w][Len(blobs[w])].data = jsonOutput[w]
              /\ Len(outcome[w]) = Len(req[w])
              /\ \A i \in 1..Len(outcome[w]) : outcome[w][i] # "failed"
              /\ \A i \in 1..Len(outcome[w]) :
                    outcome[w][i] = "collected" =>
                        \E k \in 1..Len(csvOutput[w]) : csvOutput[w][k].repo = i
              /\ cfg.csvBucketURL # "" =>
                    /\ Len(blobs[w]) > 1
                    /\ blobs[w][1].bucket = cfg.csvBucketURL
                    /\ blobs[w][1].data = csvOutput[w]
              /\ Succeeded(w)
        /\ Succeeded(w) => CanonicalAt(w) # {}

\* a shard with a written repository ended with the CSV blob and then the
\* canonical blob
C9_Witness ==
    \E w \in Workers :
        /\ Succeeded(w)
        /\ Len(blobs[w]) > 1
        /\ blobs[w][Len(blobs[w])].bucket = CanonicalBucket
        /\ Len(jsonOutput[w]) > 0

\* the plain accesses of the package variable commitID that CommitID has
\* still to make at each position
Writing(w) == pc[w] \in {"cid_store", "cid_store_n", "cid_store_p"}
Accessing(w) == pc[w] \in {"cid_check", "cid_store", "cid_store_n", "cid_store_p",
                           "cid_ret"}

\* C10: concurrent calls of Process perform no unsynchronized write to
\* state shared between the workers: no worker is about to write commitID
\* while another worker is about to read or write it.
C10_NoUnsynchronizedWrite ==
    \A a \in Workers : \A b \in Workers \ {a} : ~(Writing(a) /\ Accessing(b))

(***************************************************************************)
(* Properties of the sources (SpecPure)                                    *)
(***************************************************************************)
\* C11: the deps.dev source keeps absence distinct from zero: IsSupported
\* is true exactly for URLs whose hostname is github.com; Get on an
\* unsupported repository returns a Set with DependentCount unset and no
\* error, without querying the dependents store; on a supported repository
\* DependentCount is set exactly when the lookup reports found (a found
\* count of 0 included), stays unset when not found, and a lookup error
\* yields an error and no Set.
C11_AbsenceNotZero ==
    /\ (call.op = "IsSupported" /\ result # Nil) =>
          (result.ok <=> call.u.Host.name = "github.com")
    /\ (call.op = "Get" /\ result # Nil) =>
          IF call.u.Host.name # "github.com"
          THEN /\ result.s # Nil /\ ~result.s.DependentCount.set
               /\ result.err = NoError
               /\ ~result.queried
          ELSE /\ result.queried
               /\ IF call.count.err # NoError
                  THEN /\ result.err # NoError
                       /\ ErrorsIs(result.err, call.count.err)
                       /\ result.s = Nil
                  ELSE /\ result.err = NoError
                       /\ result.s # Nil
                       /\ result.s.DependentCount.set <=> call.count.found
                       /\ call.count.found =>
                             result.s.DependentCount.value = call.count.deps

\* a supported repository whose lookup found a count of 0: the field is
\* set, to 0
C11_Witness ==
    /\ call.op = "Get" /\ result # Nil
    /\ call.u.Host.name = "github.com"
    /\ call.count.found /\ call.count.deps = 0 /\ call.count.err = NoError
    /\ result.s.DependentCount = [set |-> TRUE, value |-> 0]

\* C13: queryBasicRepoData derives an owner and a repository name for every
\* URL path, the empty path and a path of one segment included: it either
\* issues the query with both values or returns an error, and never fails
\* with an out-of-range access.
C13_NoOutOfRange ==
    (call.op = "queryBasicRepoData" /\ result # Nil) =>
        /\ ~result.panic
        /\ result.queried \/ result.err # NoError

(***************************************************************************)
(* Properties of the two outputs of Process (Spec)                         *)
(***************************************************************************)
\* the indices of the repositories of the shard that were collected, in
\* the order of the request
CollectedRepos(w) ==
    LET IsCollected(i) == outcome[w][i] = "collected"
    IN  SelectSeq([i \in 1..Len(outcome[w]) |-> i], IsCollected)

\* C12: after a Process call that does not fail, the JSON output and the
\* CSV output hold the same sequence of records: exactly one record per
\* repository that was collected successfully, in the order of the request;
\* each record is written to JSON before CSV, with the same Set and the
\* same extra fields.
C12_SameSequence ==
    \A w \in Workers :
        /\ Len(csvOutput[w]) <= Len(jsonOutput[w])
        /\ Len(jsonOutput[w]) <= Len(csvOutput[w]) + 1
        /\ SubSeq(jsonOutput[w], 1, Len(csvOutput[w])) = csvOutput[w]
        /\ Succeeded(w) =>
              /\ jsonOutput[w] = csvOutput[w]
              /\ [k \in 1..Len(csvOutput[w]) |-> csvOutput[w][k].repo]
                    = CollectedRepos(w)

\* a shard ended well with two written repositories around a skipped one
C12_Witness ==
    \E w \in Workers :
        /\ Succeeded(w)
        /\ Len(outcome[w]) > 2
        /\ outcome[w][1] = "collected"
        /\ outcome[w][2] \in Skipped
        /\ outcome[w][3] = "collected"
        /\ Len(jsonOutput[w]) > 1

====
